---- MODULE Spec2Model ----
(***************************************************************************)
(* A model of plenumsbot.py: the Plenum class (weekly date arithmetic,     *)
(* section and event parsing of a plenum page, generation of the next      *)
(* page, maintenance of the index page) and the main sequence that reads   *)
(* and writes the wiki.                                                    *)
(*                                                                         *)
(* Dates are proleptic Gregorian ordinals (datetime.date.toordinal()).     *)
(* A text is the sequence of its pieces between "\n" characters, so the    *)
(* empty text is <<EmptyLine>>.  A line of a plenum page is the record     *)
(*   pre spaces, eq '=' characters, il '=' characters and a space (il>0),  *)
(*   the word w, a space and ir '=' characters (ir>0), eq '=' characters,  *)
(*   post spaces                                                           *)
(* with a space on either side of the inner part when eq > 0; a bullet has *)
(* w = "*" followed by one space, the date token and desc.                 *)
(***************************************************************************)
EXTENDS Integers, Sequences, FiniteSets, TLC

VARIABLES
    today,                  \* the reference date given to Plenum.__init__
    dow,                    \* self.dow
    next_date,              \* self.next_date
    last_date,              \* self.last_date
    plenum_page,            \* the text handed to the page functions
    section_list,           \* what extract_content returned
    eventlist,              \* what upcoming_events returned
    page_out,               \* what generate_page_next_plenum returned
    wiki_last,              \* the wiki: text of plenum.last_page
    wiki_index,             \* the wiki: text of the index page
    wiki_next,              \* the wiki: text of plenum.next_page
    wiki_redirect,          \* the wiki: target of the redirect page
    last_page_content,      \* locals of the main sequence
    index_page_content,
    new_page_content,
    new_index_page_content,
    index0,                 \* the index text the first run started from
    index_writes,           \* number of set_page calls on the index page
    runs,                   \* number of complete runs of the main sequence
    pc

vars == <<today, dow, next_date, last_date, plenum_page, section_list,
          eventlist, page_out, wiki_last, wiki_index, wiki_next,
          wiki_redirect, last_page_content, index_page_content,
          new_page_content, new_index_page_content, index0, index_writes,
          runs, pc>>

dateVars == <<today, dow, next_date, last_date>>
pageVars == <<plenum_page, section_list, eventlist, page_out>>
wikiVars == <<wiki_last, wiki_index, wiki_next, wiki_redirect>>
mainVars == <<last_page_content, index_page_content, new_page_content,
              new_index_page_content, index0, index_writes, runs>>

----------------------------------------------------------------------------
(* Bounds *)

DateLo == 738885
DateSpan == 14
MaxLines == 4
MaxIndexLines == 3
MaxRuns == 3
ConfigDow == 0

(* Program constants *)

HeadingEq == 5
BulletMinIndent == 2
BulletMaxIndent == 4
DaysPerWeek == 7

Namespace == "team"

----------------------------------------------------------------------------
(* Python built-ins *)

Min(a, b) == IF a < b THEN a ELSE b
Max(a, b) == IF a < b THEN b ELSE a

\* s[lo:hi] on a list, 0-based, lo >= 0; a negative hi counts from the end
PySlice(s, lo, hi) ==
    LET h == IF hi < 0 THEN Max(Len(s) + hi, 0) ELSE Min(hi, Len(s))
    IN  [i \in 1..Max(h - lo, 0) |-> s[lo + i]]

\* s[-2:]
PyLastTwo(s) == PySlice(s, Max(Len(s) - 2, 0), Len(s))

\* list.index(x), 0-based; -1 stands for ValueError
PyIndex(s, x) ==
    IF \E i \in 1..Len(s) : s[i] = x
    THEN (CHOOSE i \in 1..Len(s) : s[i] = x /\ \A j \in 1..(i - 1) : s[j] # x) - 1
    ELSE -1

\* list.insert(i, x), 0-based, i >= 0: an index past the end appends
PyInsert(s, i, x) ==
    LET p == Min(i, Len(s))
    IN  SubSeq(s, 1, p) \o <<x>> \o SubSeq(s, p + 1, Len(s))

\* date.weekday(): Monday is 0
Weekday(d) == (d + 6) % DaysPerWeek

\* the civil date <<year, month, day>> of an ordinal
Civil(d) ==
    LET z   == d + 305
        era == z \div 146097
        doe == z - era * 146097
        yoe == (doe - doe \div 1460 + doe \div 36524 - doe \div 146096) \div 365
        doy == doe - (365 * yoe + yoe \div 4 - yoe \div 100)
        mp  == (5 * doy + 2) \div 153
        dd  == doy - (153 * mp + 2) \div 5 + 1
        mm  == IF mp < 10 THEN mp + 3 ELSE mp - 9
        yy  == yoe + era * 400 + (IF mm <= 2 THEN 1 ELSE 0)
    IN  <<yy, mm, dd>>

\* date.strftime("%Y-%m-%d"): three zero-padded fields
Strftime(d) == Civil(d)

\* date.year
Year(d) == Civil(d)[1]

\* a > b on two "YYYY-MM-DD" strings: lexicographic
StrGreater(a, b) ==
    \/ a[1] > b[1]
    \/ a[1] = b[1] /\ a[2] > b[2]
    \/ a[1] = b[1] /\ a[2] = b[2] /\ a[3] > b[3]

----------------------------------------------------------------------------
(* Plenum: date arithmetic *)

calc_next_date_nowrap(w, t) == t + (w - Weekday(t))

calc_next_date(w, t) ==
    LET delta_days == w - Weekday(t)
    IN  IF delta_days <= 0 THEN t + delta_days + DaysPerWeek ELSE t + delta_days

calc_last_date_strict(w, t) ==
    LET delta_days == w - Weekday(t)
    IN  IF delta_days >= 0 THEN t + delta_days - DaysPerWeek ELSE t + delta_days

calc_last_date(w, t) ==
    LET delta_days == w - Weekday(t)
    IN  IF delta_days > 0 THEN t + delta_days - DaysPerWeek ELSE t + delta_days

\* ":".join([namespace, date.strftime("%Y-%m-%d")])
PageId(ns, d) == [ns |-> ns, date |-> Strftime(d)]
next_page == PageId(Namespace, next_date)
last_page == PageId(Namespace, last_date)

----------------------------------------------------------------------------
(* Lines and texts *)

NoDate == <<0, 0, 0>>

Line(pre, eq, w, post) ==
    [pre |-> pre, eq |-> eq, il |-> 0, w |-> w, ir |-> 0, post |-> post,
     date |-> NoDate, desc |-> ""]

Bullet(pre, date, desc) ==
    [pre |-> pre, eq |-> 0, il |-> 0, w |-> "*", ir |-> 0, post |-> 0,
     date |-> date, desc |-> desc]

EmptyLine == Line(0, 0, "", 0)

\* the line consists of whitespace only (it may be empty)
IsBlank(l) == l.eq = 0 /\ l.w = ""

\* str.splitlines(): the pieces of the text, without a final empty piece
SplitLines(text) ==
    IF text[Len(text)] = EmptyLine THEN SubSeq(text, 1, Len(text) - 1) ELSE text

\* "\n".join(list)
Join(list) == IF list = <<>> THEN <<EmptyLine>> ELSE list

\* str.strip("\n") of a text
StripNL(text) ==
    LET keep == {i \in 1..Len(text) : text[i] # EmptyLine}
    IN  IF keep = {} THEN <<EmptyLine>>
        ELSE SubSeq(text, CHOOSE i \in keep : \A j \in keep : i <= j,
                          CHOOSE i \in keep : \A j \in keep : i >= j)

\* str.strip() of a text
Strip(text) ==
    LET keep == {i \in 1..Len(text) : ~IsBlank(text[i])}
    IN  IF keep = {} THEN <<EmptyLine>>
        ELSE LET lo == CHOOSE i \in keep : \A j \in keep : i <= j
                 hi == CHOOSE i \in keep : \A j \in keep : i >= j
             IN  [i \in 1..(hi - lo + 1) |->
                    [text[lo + i - 1] EXCEPT
                       !.pre  = IF i = 1 THEN 0 ELSE @,
                       !.post = IF i = hi - lo + 1 THEN 0 ELSE @]]

\* str.lower(), as re.IGNORECASE compares, on the words of the model
Lower(w) == IF w = "Termine" THEN "termine" ELSE w

----------------------------------------------------------------------------
(* Plenum: parsing a plenum page *)

\* re.search(r"^Ende:\s*\d{2}:\d{2}\s*Uhr\s*$", ..., MULTILINE | IGNORECASE)
\* on one line: no leading whitespace, trailing whitespace allowed
EndeLine(l) == l.pre = 0 /\ l.eq = 0 /\ l.w = "Ende: 18:30 Uhr"

last_plenum_took_place(page) ==
    LET tail == PyLastTwo(SplitLines(page))
    IN  \E i \in 1..Len(tail) : EndeLine(tail[i])

\* re.match(r"^={5}[^=]*={5}$", line.strip())
HeadingMatch(l) == l.eq = HeadingEq /\ l.il = 0 /\ l.ir = 0

\* line.strip("=").strip() of a heading line: the '=' run of a side that
\* carries whitespace outside it is not stripped
Headline(l) ==
    [il |-> IF l.pre = 0 THEN l.il ELSE l.eq,
     w  |-> l.w,
     ir |-> IF l.post = 0 THEN l.ir ELSE l.eq]

Termine == [il |-> 0, w |-> "Termine", ir |-> 0]

\* lines 148-151: the heading indices (0-based) and the terminal boundary
SectionIndex(pagelist) ==
    LET F[i \in 0..Len(pagelist)] ==
            IF i = 0 THEN <<>>
            ELSE IF HeadingMatch(pagelist[i]) THEN Append(F[i - 1], i - 1)
                 ELSE F[i - 1]
    IN  Append(F[Len(pagelist)], Len(pagelist) - 1)

\* lines 152-155: (start, end) pairs; list.index finds the first occurrence
Sections(section_index) ==
    LET n == Len(section_index)
        F[p \in 0..n] ==
            IF p = 0 THEN <<>>
            ELSE LET idx == section_index[p]
                     at  == PyIndex(section_index, idx)
                 IN  IF at # n - 1
                     THEN Append(F[p - 1], <<idx, section_index[at + 2] - 1>>)
                     ELSE F[p - 1]
    IN  F[n]

\* lines 159-162
SectionBody(pagelist, section) ==
    Join(PySlice(pagelist, section[1] + 1, section[2]))

extract_content(page) ==
    LET pagelist == SplitLines(page)
        sections == Sections(SectionIndex(pagelist))
    IN  [k \in 1..Len(sections) |->
            [headline |-> Headline(pagelist[sections[k][1] + 1]),
             content  |-> SectionBody(pagelist, sections[k])]]

\* re.findall(r"^(\s*={5}\s*Termine\s*={5}\s*)$", ..., MULTILINE | IGNORECASE)
\* on one line
TermineMatch(l) ==
    l.eq = HeadingEq /\ l.il = 0 /\ l.ir = 0 /\ Lower(l.w) = "termine"

\* The first match of that pattern in the text, as the pieces it spans: the
\* leading \s* starts at the first of the blank lines directly above the
\* heading line, the trailing \s* runs over the blank lines directly below
\* it and gives back no more than what follows the last of them.
FirstTermineMatch(page) ==
    LET hs == {i \in 1..Len(page) : TermineMatch(page[i])}
        h  == CHOOSE i \in hs : \A j \in hs : i <= j
        lo == CHOOSE i \in 1..h :
                /\ \A j \in i..(h - 1) : IsBlank(page[j])
                /\ \A k \in 1..(i - 1) : \E j \in k..(h - 1) : ~IsBlank(page[j])
        hi == CHOOSE i \in h..Len(page) :
                /\ \A j \in (h + 1)..i : IsBlank(page[j])
                /\ \A k \in (i + 1)..Len(page) : \E j \in (h + 1)..k : ~IsBlank(page[j])
    IN  SubSeq(page, lo, hi)

\* re.findall(r"^\s{2,4}\*\s(\d{4}-\d{2}-\d{2})(.*)$", line)
BulletMatch(l) ==
    /\ l.eq = 0 /\ l.w = "*"
    /\ BulletMinIndent <= l.pre /\ l.pre <= BulletMaxIndent

Event(l) == [date |-> l.date, desc |-> l.desc]

\* lines 136-141
EventsAfter(lines, nd) ==
    LET F[i \in 0..Len(lines)] ==
            IF i = 0 THEN <<>>
            ELSE IF BulletMatch(lines[i]) /\ StrGreater(lines[i].date, Strftime(nd))
                 THEN Append(F[i - 1], Event(lines[i]))
                 ELSE F[i - 1]
    IN  F[Len(lines)]

\* st is "False" (no heading), "ValueError" (list.index raised) or "list"
upcoming_events(page, nd) ==
    LET plenum_page_list == SplitLines(page)
    IN  IF ~\E i \in 1..Len(page) : TermineMatch(page[i])
        THEN [st |-> "False", ev |-> <<>>]
        ELSE LET events_heading == StripNL(FirstTermineMatch(page))
                 at == IF Len(events_heading) = 1
                       THEN PyIndex(plenum_page_list, events_heading[1])
                       ELSE -1
             IN  IF at = -1
                 THEN [st |-> "ValueError", ev |-> <<>>]
                 ELSE [st |-> "list",
                       ev |-> EventsAfter(PySlice(plenum_page_list, at + 1,
                                                  Len(plenum_page_list)), nd)]

----------------------------------------------------------------------------
(* Plenum: generating the next page *)

\* self.tpl_blank, the text of template_blank_topics.j2
TplBlank == <<Line(0, 0, "tpl_blank", 0)>>

\* f"===== {block[0]} ====="
HeadingLine(h) ==
    [pre |-> 0, eq |-> HeadingEq, il |-> h.il, w |-> h.w, ir |-> h.ir,
     post |-> 0, date |-> NoDate, desc |-> ""]

\* lines 177-183: the text after the loop; every block ends in "\n\n", so
\* the last piece is empty and the next block starts in it
Blocks(contentlist) ==
    LET F[i \in 0..Len(contentlist)] ==
            IF i = 0 THEN <<>>
            ELSE IF contentlist[i].headline = Termine THEN F[i - 1]
                 ELSE F[i - 1] \o <<HeadingLine(contentlist[i].headline)>>
                             \o StripNL(contentlist[i].content) \o <<EmptyLine>>
    IN  F[Len(contentlist)] \o <<EmptyLine>>

\* f"  * {event[0]}{event[1]}\n" for each event
EventsText(ev) ==
    [i \in 1..(Len(ev) + 1) |->
        IF i <= Len(ev) THEN Bullet(2, ev[i].date, ev[i].desc) ELSE EmptyLine]

\* the values handed to template.render; raised: upcoming_events raised
generate_page_next_plenum(page, nd) ==
    LET content == IF last_plenum_took_place(page) THEN TplBlank
                   ELSE Strip(Blocks(extract_content(page)))
        events  == upcoming_events(page, nd)
    IN  IF events.st = "ValueError"
        THEN [raised |-> TRUE, date_plenum |-> nd, upcoming_events |-> <<>>,
              content |-> <<>>]
        ELSE [raised |-> FALSE, date_plenum |-> nd,
              upcoming_events |-> EventsText(events.ev),
              content |-> content]

----------------------------------------------------------------------------
(* Plenum: the index page *)

Protokolle == Line(0, 6, "Protokolle", 0)

\* f"===== {year} ====="
YearHeading(y) ==
    [pre |-> 0, eq |-> HeadingEq, il |-> 0, w |-> "%Y", ir |-> 0, post |-> 0,
     date |-> <<y, 0, 0>>, desc |-> ""]

\* f"  * [[{page}]]"
LinkLine(page) ==
    [pre |-> 2, eq |-> 0, il |-> 0, w |-> "* [[]]", ir |-> 0, post |-> 0,
     date |-> page.date, desc |-> page.ns]

\* namespace a ends with namespace b
EndsWith(a, b) == a = b \/ (a = "myteam" /\ b = "team")

\* the page id occurs in the line as a substring
Occurs(page, l) ==
    l.w = "* [[]]" /\ l.date = page.date /\ EndsWith(l.desc, page.ns)

update_index_page_plus1(index_page, nd, np) ==
    LET plenum_list == SplitLines(index_page)
        yi == PyIndex(plenum_list, YearHeading(Year(nd)))
        pi == PyIndex(plenum_list, Protokolle)
        protocol_index == IF pi = -1 THEN 0 ELSE pi + 1
    IN  IF yi = -1
        THEN Join(PyInsert(PyInsert(plenum_list, protocol_index,
                                    YearHeading(Year(nd))),
                           protocol_index + 1, LinkLine(np)))
        ELSE Join(PyInsert(plenum_list, yi + 1, LinkLine(np)))

update_index_page(index_page, nd, np) ==
    LET plenum_list == SplitLines(index_page)
        yi == PyIndex(plenum_list, YearHeading(Year(nd)))
        pi == PyIndex(plenum_list, Protokolle)
        protocol_index == IF pi = -1 THEN 0 ELSE pi + 1
    IN  IF yi = -1
        THEN Join(PyInsert(PyInsert(plenum_list, protocol_index,
                                    YearHeading(Year(nd))),
                           protocol_index + 2, LinkLine(np)))
        ELSE Join(PyInsert(plenum_list, yi + 1, LinkLine(np)))

plenum_in_list_never(text, np) == FALSE

plenum_in_list(text, np) == \E i \in 1..Len(text) : Occurs(np, text[i])

----------------------------------------------------------------------------
(* Inputs *)

NoText == <<EmptyLine>>
NoEvents == [st |-> "none", ev |-> <<>>]
NoPage == [raised |-> FALSE, date_plenum |-> 0, upcoming_events |-> <<>>,
           content |-> <<>>]

\* the texts of 1..n pieces over a set of lines
Texts(lines, n) == UNION {[1..k -> lines] : k \in 1..n}

\* lines of a plenum page around the next plenum's date nd
PageLines(nd) ==
    { Line(0, HeadingEq, "Topic A", 0),
      Line(0, HeadingEq, "Termine", 0),
      Line(2, HeadingEq, "termine", 0),
      EmptyLine,
      Line(2, 0, "", 0),
      Line(0, 0, "foo", 0),
      Bullet(2, Strftime(nd + 14), " a"),
      Bullet(4, Strftime(nd + 7), " b"),
      Bullet(3, Strftime(nd), " c"),
      Line(0, 0, "Ende: 18:30 Uhr", 0) }

\* lines of an index page around the next plenum's date nd
IndexLines(nd, ld) ==
    { Protokolle,
      YearHeading(Year(nd)),
      YearHeading(Year(nd) - 1),
      EmptyLine,
      LinkLine(PageId(Namespace, nd)),
      LinkLine(PageId(Namespace, ld)),
      LinkLine(PageId("myteam", nd)) }

\* the last plenum's page in the runs of the main sequence
MainPages(nd) ==
    { NoText,
      <<Line(0, HeadingEq, "Topic A", 0), Line(0, 0, "foo", 0), EmptyLine,
        Line(0, HeadingEq, "Termine", 0), Bullet(2, Strftime(nd + 7), " b")>>,
      <<Line(0, HeadingEq, "Topic A", 0), Line(0, 0, "Ende: 18:30 Uhr", 0)>>,
      <<Line(0, HeadingEq, "Termine", 0), Line(2, 0, "", 0)>> }

----------------------------------------------------------------------------
(* Plenum.__init__ on every date and weekday *)

InitDate ==
    /\ today \in DateLo..(DateLo + DateSpan - 1)
    /\ dow \in 0..(DaysPerWeek - 1)
    /\ next_date = 0 /\ last_date = 0
    /\ plenum_page = NoText /\ section_list = <<>> /\ eventlist = NoEvents
    /\ page_out = NoPage
    /\ wiki_last = NoText /\ wiki_index = NoText /\ wiki_next = NoPage
    /\ wiki_redirect = "none"
    /\ last_page_content = NoText /\ index_page_content = NoText
    /\ new_page_content = NoPage /\ new_index_page_content = NoText
    /\ index0 = NoText /\ index_writes = 0 /\ runs = 0
    /\ pc = "new"

\* lines 80-84
Construct ==
    /\ pc = "new"
    /\ next_date' = calc_next_date(dow, today)
    /\ last_date' = calc_last_date(dow, today)
    /\ pc' = "constructed"
    /\ UNCHANGED <<today, dow, pageVars, wikiVars, mainVars>>

NextDate == Construct

SpecDate == InitDate /\ [][NextDate]_vars

----------------------------------------------------------------------------
(* The page functions of a constructed Plenum on every page *)

InitPage ==
    /\ today = DateLo /\ dow = ConfigDow
    /\ next_date = calc_next_date(dow, today)
    /\ last_date = calc_last_date(dow, today)
    /\ plenum_page \in Texts(PageLines(next_date), MaxLines)
    /\ section_list = <<>> /\ eventlist = NoEvents /\ page_out = NoPage
    /\ wiki_last = NoText /\ wiki_index = NoText /\ wiki_next = NoPage
    /\ wiki_redirect = "none"
    /\ last_page_content = NoText /\ index_page_content = NoText
    /\ new_page_content = NoPage /\ new_index_page_content = NoText
    /\ index0 = NoText /\ index_writes = 0 /\ runs = 0
    /\ pc = "page"

CallExtractContent ==
    /\ pc = "page"
    /\ section_list' = extract_content(plenum_page)
    /\ pc' = "extracted"
    /\ UNCHANGED <<dateVars, plenum_page, eventlist, page_out, wikiVars, mainVars>>

CallUpcomingEvents ==
    /\ pc = "page"
    /\ eventlist' = upcoming_events(plenum_page, next_date)
    /\ pc' = "events"
    /\ UNCHANGED <<dateVars, plenum_page, section_list, page_out, wikiVars, mainVars>>

CallGeneratePage ==
    /\ pc = "page"
    /\ page_out' = generate_page_next_plenum(plenum_page, next_date)
    /\ pc' = "generated"
    /\ UNCHANGED <<dateVars, plenum_page, section_list, eventlist, wikiVars, mainVars>>

NextPage ==
    \/ CallExtractContent
    \/ CallUpcomingEvents
    \/ CallGeneratePage

SpecPage == InitPage /\ [][NextPage]_vars

----------------------------------------------------------------------------
(* The main sequence, run after run against the same wiki *)

InitMain ==
    /\ today = DateLo /\ dow = ConfigDow
    /\ next_date = calc_next_date(dow, today)
    /\ last_date = calc_last_date(dow, today)
    /\ plenum_page = NoText /\ section_list = <<>> /\ eventlist = NoEvents
    /\ page_out = NoPage
    /\ wiki_last \in MainPages(next_date)
    /\ wiki_index \in Texts(IndexLines(next_date, last_date), MaxIndexLines)
    /\ wiki_next = NoPage
    /\ wiki_redirect = "none"
    /\ last_page_content = NoText /\ index_page_content = NoText
    /\ new_page_content = NoPage /\ new_index_page_content = NoText
    /\ index0 = wiki_index /\ index_writes = 0 /\ runs = 0
    /\ pc = "get_last"

\* line 268
GetLastPage ==
    /\ pc = "get_last"
    /\ last_page_content' = wiki_last
    /\ pc' = "get_index"
    /\ UNCHANGED <<dateVars, pageVars, wikiVars, index_page_content,
                   new_page_content, new_index_page_content, index0,
                   index_writes, runs>>

\* line 269
GetIndexPage ==
    /\ pc = "get_index"
    /\ index_page_content' = wiki_index
    /\ pc' = "generate"
    /\ UNCHANGED <<dateVars, pageVars, wikiVars, last_page_content,
                   new_page_content, new_index_page_content, index0,
                   index_writes, runs>>

\* line 270; a ValueError is not caught by line 278 and ends the process
GeneratePage ==
    /\ pc = "generate"
    /\ new_page_content' = generate_page_next_plenum(last_page_content, next_date)
    /\ pc' = IF new_page_content'.raised THEN "crashed" ELSE "update_index"
    /\ UNCHANGED <<dateVars, pageVars, wikiVars, last_page_content,
                   index_page_content, new_index_page_content, index0,
                   index_writes, runs>>

\* lines 271-273
UpdateIndexPage ==
    /\ pc = "update_index"
    /\ new_index_page_content' =
           update_index_page(index_page_content, next_date, next_page)
    /\ pc' = "set_page"
    /\ UNCHANGED <<dateVars, pageVars, wikiVars, last_page_content,
                   index_page_content, new_page_content, index0,
                   index_writes, runs>>

\* line 274
SetNextPage ==
    /\ pc = "set_page"
    /\ wiki_next' = new_page_content
    /\ pc' = "set_index"
    /\ UNCHANGED <<dateVars, pageVars, wiki_last, wiki_index, wiki_redirect,
                   mainVars>>

\* lines 275-276
SetIndexPage ==
    /\ pc = "set_index"
    /\ IF ~plenum_in_list(index_page_content, next_page)
       THEN /\ wiki_index' = new_index_page_content
            /\ index_writes' = index_writes + 1
       ELSE UNCHANGED <<wiki_index, index_writes>>
    /\ pc' = "redirect"
    /\ UNCHANGED <<dateVars, pageVars, wiki_last, wiki_next, wiki_redirect,
                   last_page_content, index_page_content, new_page_content,
                   new_index_page_content, index0, runs>>

\* line 277
SetRedirect ==
    /\ pc = "redirect"
    /\ wiki_redirect' = next_page
    /\ runs' = runs + 1
    /\ pc' = "done"
    /\ UNCHANGED <<dateVars, pageVars, wiki_last, wiki_index, wiki_next,
                   last_page_content, index_page_content, new_page_content,
                   new_index_page_content, index0, index_writes>>

\* the script is started again on the same day: lines 260-265
NextRun ==
    /\ pc = "done"
    /\ runs < MaxRuns
    /\ next_date' = calc_next_date(dow, today)
    /\ last_date' = calc_last_date(dow, today)
    /\ pc' = "get_last"
    /\ UNCHANGED <<today, dow, pageVars, wikiVars, mainVars>>

NextMain ==
    \/ GetLastPage
    \/ GetIndexPage
    \/ GeneratePage
    \/ UpdateIndexPage
    \/ SetNextPage
    \/ SetIndexPage
    \/ SetRedirect
    \/ NextRun

SpecMain == InitMain /\ [][NextMain]_vars

----------------------------------------------------------------------------
(* Properties of the date arithmetic, under SpecDate *)

\* C1: for every reference date and target weekday, next_date falls on the
\* target weekday and lies 1 to 7 days after the reference date, 7 days
\* exactly when the reference date is itself on the target weekday.
C1_NextDate ==
    pc = "constructed" =>
        /\ Weekday(next_date) = dow
        /\ next_date - today \in 1..7
        /\ (next_date - today = 7) <=> (Weekday(today) = dow)

C1_Witness ==
    pc = "constructed" /\ Weekday(today) = dow /\ next_date = today + 7

\* C2: last_date falls on the target weekday and lies 0 to 7 days before
\* the reference date; it is the reference date itself exactly when that
\* date is on the target weekday, and next_date is always 7 days after it.
C2_LastDate ==
    pc = "constructed" =>
        /\ Weekday(last_date) = dow
        /\ today - last_date \in 0..7
        /\ (last_date = today) <=> (Weekday(today) = dow)
        /\ next_date - last_date = 7

C2_Witness ==
    pc = "constructed" /\ Weekday(today) = dow /\ last_date = today

----------------------------------------------------------------------------
(* Properties of the page functions, under SpecPage *)

\* the heading lines of a list of lines, as 1-based positions in order
HeadingPositions(pagelist) ==
    LET F[i \in 0..Len(pagelist)] ==
            IF i = 0 THEN <<>>
            ELSE IF HeadingMatch(pagelist[i]) THEN Append(F[i - 1], i)
                 ELSE F[i - 1]
    IN  F[Len(pagelist)]

\* C3: extract_content returns exactly one section per heading line, in
\* document order, wherever the heading lines sit in the document.
C3_OneSectionPerHeading ==
    pc = "extracted" =>
        LET pagelist == SplitLines(plenum_page)
            hp == HeadingPositions(pagelist)
        IN  /\ Len(section_list) = Len(hp)
            /\ \A k \in 1..Len(hp) :
                   section_list[k].headline = Headline(pagelist[hp[k]])

\* C8: the body of every section is the text of all lines strictly between
\* its heading line and the next boundary: the next heading line, or the
\* last line of the document for the final section.
C8_BodyIsAllLinesBetween ==
    pc = "extracted" =>
        LET pagelist == SplitLines(plenum_page)
            hp == HeadingPositions(pagelist)
        IN  \A k \in 1..Min(Len(section_list), Len(hp)) :
                LET b == IF k < Len(hp) THEN hp[k + 1] ELSE Len(pagelist)
                IN  section_list[k].content = Join(SubSeq(pagelist, hp[k] + 1, b - 1))

\* the "===== heading =====" lines the sections of a page are to be carried
\* forward as: one for each heading line not headed "Termine"
CarriedHeadings(pagelist) ==
    LET hp == HeadingPositions(pagelist)
        F[k \in 0..Len(hp)] ==
            IF k = 0 THEN <<>>
            ELSE IF Headline(pagelist[hp[k]]) = Termine THEN F[k - 1]
                 ELSE Append(F[k - 1], HeadingLine(Headline(pagelist[hp[k]])))
    IN  F[Len(hp)]

IsBlockHeading(l) == l.eq = HeadingEq

\* C4: when the last plenum did not take place the content holds exactly
\* one heading block per section not headed "Termine", in document order,
\* and none headed "Termine"; when it took place the content is the blank
\* template.
C4_CarryForward ==
    (pc = "generated" /\ ~page_out.raised) =>
        IF last_plenum_took_place(plenum_page)
        THEN page_out.content = TplBlank
        ELSE SelectSeq(page_out.content, IsBlockHeading)
                 = CarriedHeadings(SplitLines(plenum_page))

HasTermineHeading(page) == \E i \in 1..Len(page) : TermineMatch(page[i])

\* the dated bullets below the first Termine heading line whose date is
\* after nd, in document order
EventsExpected(page, nd) ==
    LET pagelist == SplitLines(page)
        h == CHOOSE i \in 1..Len(pagelist) :
                /\ TermineMatch(pagelist[i])
                /\ \A j \in 1..(i - 1) : ~TermineMatch(pagelist[j])
        F[i \in h..Len(pagelist)] ==
            IF i = h THEN <<>>
            ELSE IF BulletMatch(pagelist[i])
                    /\ StrGreater(pagelist[i].date, Strftime(nd))
                 THEN Append(F[i - 1], Event(pagelist[i]))
                 ELSE F[i - 1]
    IN  F[Len(pagelist)]

\* C5: for every document with a Termine heading line, upcoming_events
\* returns exactly the dated bullets after that heading whose date is
\* strictly greater than next_date, in document order.
C5_EventsAfterNextDate ==
    (pc = "events" /\ HasTermineHeading(plenum_page)) =>
        /\ eventlist.st = "list"
        /\ eventlist.ev = EventsExpected(plenum_page, next_date)

\* C9: upcoming_events never raises: it returns False when there is no
\* Termine heading and a list whenever there is one.
C9_NeverRaises ==
    pc = "events" =>
        /\ eventlist.st # "ValueError"
        /\ (eventlist.st = "False") <=> ~HasTermineHeading(plenum_page)

----------------------------------------------------------------------------
(* Properties of the index page and of the main sequence, under SpecMain *)

\* s without its i-th element
Without(s, i) == SubSeq(s, 1, i - 1) \o SubSeq(s, i + 1, Len(s))

IndexUpdated == pc = "set_page"

\* the index read has the Protokolle line and no heading of the year
NewYearCase ==
    /\ IndexUpdated
    /\ PyIndex(SplitLines(index_page_content), Protokolle) # -1
    /\ PyIndex(SplitLines(index_page_content), YearHeading(Year(next_date))) = -1

\* the new index is the old one with the year heading directly under the
\* Protokolle line (1-based position q) and the link at position at
InsertedAt(q, at) ==
    LET old == SplitLines(index_page_content)
        new == new_index_page_content
    IN  /\ Len(new) = Len(old) + 2
        /\ at <= Len(new)
        /\ new[q + 1] = YearHeading(Year(next_date))
        /\ new[at] = LinkLine(next_page)
        /\ Without(Without(new, at), q + 1) = old

\* C6 as stated: the link is exactly two lines below the new year heading,
\* also when the Protokolle line is the last line of the index.
C6_LinkTwoBelowAlways ==
    NewYearCase =>
        LET q == PyIndex(SplitLines(index_page_content), Protokolle) + 1
        IN  InsertedAt(q, q + 3)

\* C6 as amended: the link is exactly two lines below the new year heading
\* when a line follows the Protokolle line, and directly below the heading,
\* as the last line, when the Protokolle line is the last line.
C6_LinkTwoBelowOrLast ==
    NewYearCase =>
        LET old == SplitLines(index_page_content)
            q == PyIndex(old, Protokolle) + 1
        IN  IF q < Len(old) THEN InsertedAt(q, q + 3)
            ELSE InsertedAt(q, q + 2) /\ Len(new_index_page_content) = q + 2

C6_Witness ==
    /\ NewYearCase
    /\ LET old == SplitLines(index_page_content)
       IN  PyIndex(old, Protokolle) + 1 = Len(old) - 1

\* a heading of the index: the Protokolle line or a year heading
IsIndexHeading(l) == l.eq >= HeadingEq

\* C10: the inserted link belongs to the year group of next_date.year: the
\* nearest heading line above it is the heading of that year.
C10_LinkInYearGroup ==
    (IndexUpdated /\ ~\E i \in 1..Len(index_page_content) :
                          index_page_content[i] = LinkLine(next_page)) =>
        LET new == new_index_page_content
            at == CHOOSE i \in 1..Len(new) : new[i] = LinkLine(next_page)
        IN  /\ \E i \in 1..(at - 1) : IsIndexHeading(new[i])
            /\ LET above == CHOOSE i \in 1..(at - 1) :
                              /\ IsIndexHeading(new[i])
                              /\ \A j \in (i + 1)..(at - 1) : ~IsIndexHeading(new[j])
               IN  new[above] = YearHeading(Year(next_date))

LinkCount(text) ==
    Cardinality({i \in 1..Len(text) : text[i] = LinkLine(next_page)})

\* C7: over successive complete runs with the same next_page, from an index
\* in which next_page does not occur: the first run writes the index with
\* the link, next_page occurs in the index update_index_page produced,
\* every later run skips the index write, and the stored index never holds
\* more than one link line for next_page.
C7_IndexWrittenOnce ==
    ~plenum_in_list(index0, next_page) =>
        /\ LinkCount(wiki_index) <= 1
        /\ index_writes <= 1
        /\ pc \in {"set_page", "set_index", "redirect", "done"} =>
               plenum_in_list(new_index_page_content, next_page)
        /\ runs >= 1 =>
               /\ index_writes = 1
               /\ LinkCount(wiki_index) = 1
               /\ plenum_in_list(wiki_index, next_page)

C7_Witness ==
    /\ ~plenum_in_list(index0, next_page)
    /\ runs >= 2 /\ pc = "done"
    /\ index_writes = 1 /\ LinkCount(wiki_index) = 1

====
